---- MODULE Spec2Model ----
(***************************************************************************)
(* Model of the howyoubeen backend: the onboarding orchestrator            *)
(* (ai_engine/onboarding_service.py) over the local knowledge store        *)
(* (storage/local_storage_service.py), and the newsletter generator        *)
(* (ai_engine/newsletter_generator.py) over the same store.                *)
(***************************************************************************)
EXTENDS Integers, Sequences, FiniteSets, TLC

\* ---------------------------------------------------------------- bounds
MaxSessions == 2      \* onboarding sessions started
MaxExt == 1           \* external events / facts accumulated per session
MaxSources == 1       \* mock data sources per session
MaxTime == 2          \* clock values 0..MaxTime (hours)
MaxCalls == 4         \* onboarding calls made in one run
MaxEvents == 2        \* life events created directly in the store
MaxEntries == 1       \* events / facts of a User object given to the newsletter service

\* ---------------------------------------------------------------- inputs
Usernames == {"alice", "bob"}
Emails == {"a@example.com", "b@example.com"}
\* VisibilityCategoryType values (data_models/enums.py)
VisibilityCategoryType ==
    {"close_family", "best_friends", "good_friends", "acquaintances",
     "public", "private", "custom"}
\* platforms of the mock service registry: one whose data is fetched in
\* process_user_data and one that is only recorded
Platforms == {"goodreads", "github"}
\* storage calls of process_user_data at which the backend may raise
FaultPoints ==
    {"create_user", "create_info_source", "create_life_event",
     "create_life_fact", "update_user"}
NoFault == [at |-> "none", k |-> 0]
Faults == {NoFault} \cup [at : FaultPoints, k : 1..2]

VARIABLES
    sessions,              \* LocalStorageService.sessions, by session id 1..Len
    username_to_user_id,   \* LocalStorageService._username_to_user_id
    email_to_user_id,      \* LocalStorageService._email_to_user_id
    user_json,             \* the user.json records, by creation order
    life_events,           \* rows of the life_events.json files
    life_facts,            \* rows of the life_facts.json files
    documents,             \* rows of the documents.json files
    visibility_categories, \* user id -> contents of visibility_categories.json
    info_sources,          \* rows of the info_sources.json files
    now,                   \* datetime.now(), in hours
    calls,                 \* number of onboarding calls made so far
    github,                \* the GitHubClient's tracked rate limit and request
    result                 \* what the last call returned

vars == <<sessions, username_to_user_id, email_to_user_id, user_json,
          life_events, life_facts, documents, visibility_categories,
          info_sources, now, calls, github, result>>

store == <<username_to_user_id, email_to_user_id, user_json, life_events,
           life_facts, documents, visibility_categories, info_sources>>

\* ------------------------------------------------------------ identities
\* uuid4() of start_onboarding: the temporary user id of session s
TempUserId(s) == <<"tmp", s>>
\* uuid4() of create_user: the id of the n-th user record
NewUserId(n) == <<"usr", n>>
IsUser(uid) == uid[1] = "usr" /\ uid[2] \in 1..Len(user_json)

\* a username typed by the person
Username(name) == [text |-> name, of |-> <<"", 0>>]
\* f"user_{user_id[:8]}", the default of process_user_data
DefaultUsername(uid) == [text |-> "user_", of |-> uid]
DefaultEmail == ""

\* an ISO timestamp without offset, as datetime.isoformat() writes it
Naive(t) == [kind |-> "naive", t |-> t]
\* an ISO timestamp with a UTC offset
Aware(t) == [kind |-> "aware", t |-> t]
\* a string datetime.fromisoformat rejects
Unparsable == [kind |-> "invalid", t |-> 0]

\* a visibility value as stored in an event row
Visibility(type, also) == [type |-> type, also_visible |-> also]

\* ---------------------------------------------------------- GitHub client
\* the rate limit for unauthenticated requests, the first tracked remaining
RateLimitUnauthenticated == 60

\* GitHubClient.__init__ at clock t: the tracked remaining count and reset
\* time, and whether a request is awaiting its response
GitHubClient(t) ==
    [rate_limit_remaining |-> RateLimitUnauthenticated,
     rate_limit_reset |-> t + 1,
     pending |-> FALSE]

\* --------------------------------------------------------------- storage
\* LocalStorageService.get_user
get_user(uid) == IF IsUser(uid) THEN <<user_json[uid[2]]>> ELSE <<>>

\* LocalStorageService.get_user_by_username
get_user_by_username(username) ==
    IF username \in DOMAIN username_to_user_id
    THEN get_user(username_to_user_id[username])
    ELSE <<>>

\* LocalStorageService.get_user_by_email
get_user_by_email(email) ==
    IF email \in DOMAIN email_to_user_id
    THEN get_user(email_to_user_id[email])
    ELSE <<>>

\* LocalStorageService.username_exists
username_exists(username) == username \in DOMAIN username_to_user_id

\* LocalStorageService.email_exists
email_exists(email) == email \in DOMAIN email_to_user_id

\* LocalStorageService.create_onboarding_session
NewSession(uid) ==
    [user_id |-> uid, step |-> "start", updated_at |-> now,
     basic_info |-> <<>>, data_sources |-> <<>>, uploaded_documents |-> <<>>,
     visibility_categories |-> <<>>, external_data_sources |-> <<>>,
     external_life_events |-> <<>>, external_life_facts |-> <<>>]

Init ==
    /\ sessions = <<>>
    /\ username_to_user_id = <<>>
    /\ email_to_user_id = <<>>
    /\ user_json = <<>>
    /\ life_events = <<>>
    /\ life_facts = <<>>
    /\ documents = <<>>
    /\ visibility_categories = <<>>
    /\ info_sources = <<>>
    /\ now = 0
    /\ calls = 0
    /\ github = GitHubClient(0)
    /\ result = [op |-> "init"]

\* ------------------------------------------------------------ onboarding
\* one more call of the onboarding service, within the explored run length
Call == calls < MaxCalls /\ calls' = calls + 1

\* OnboardingService.start_onboarding
start_onboarding ==
    /\ Call
    /\ Len(sessions) < MaxSessions
    /\ sessions' = Append(sessions, NewSession(TempUserId(Len(sessions) + 1)))
    /\ result' = [op |-> "start_onboarding", sid |-> Len(sessions) + 1]
    /\ UNCHANGED <<github, store, now>>

BasicInfoAccepted_UsernameOnly(username, email) ==
    get_user_by_username(username) = <<>>

\* whether submit_basic_info passes its two uniqueness checks
BasicInfoAccepted(username, email) ==
    /\ get_user_by_username(username) = <<>>
    /\ get_user_by_email(email) = <<>>

\* OnboardingService.submit_basic_info
submit_basic_info(s, name, email) ==
    /\ Call
    /\ s \in 1..Len(sessions)
    /\ LET username == Username(name)
           ok == BasicInfoAccepted(username, email)
       IN /\ sessions' =
                IF ok
                THEN [sessions EXCEPT
                        ![s].basic_info = <<[username |-> username, email |-> email]>>,
                        ![s].step = "basic_info_complete",
                        ![s].updated_at = now]
                ELSE sessions
          /\ result' = [op |-> "submit_basic_info", sid |-> s, success |-> ok,
                        username |-> username, email |-> email]
    /\ UNCHANGED <<github, store, now>>

\* the platforms mock_services.get_service knows
get_service(platform) == platform \in Platforms

\* OnboardingService.add_data_source
add_data_source(s, platform) ==
    /\ Call
    /\ s \in 1..Len(sessions)
    /\ Len(sessions[s].data_sources) < MaxSources
    /\ LET ok == get_service(platform)
       IN /\ sessions' =
                IF ok
                THEN [sessions EXCEPT
                        ![s].data_sources = Append(@,
                            [platform |-> platform, description |-> platform]),
                        ![s].updated_at = now]
                ELSE sessions
          /\ result' = [op |-> "add_data_source", sid |-> s, success |-> ok]
    /\ UNCHANGED <<github, store, now>>

\* LocalStorageService.create_document
create_document(document_data) ==
    [user_id |-> document_data.user_id, document_id |-> Len(documents) + 1]

\* LocalStorageService.save_file returns the length of the file under "size"
SaveFileKeys == {"file_id", "original_filename", "stored_filename", "file_path",
                 "description", "size", "created_at"}

\* OnboardingService.upload_document: document_data reads
\* file_result["file_path"] and file_result["file_size"]; a missing key
\* raises KeyError before create_document, and the except clause returns None
upload_document(s) ==
    /\ Call
    /\ s \in 1..Len(sessions)
    /\ LET ok == {"file_path", "file_size"} \subseteq SaveFileKeys
           document_record == create_document([user_id |-> sessions[s].user_id])
       IN /\ documents' = IF ok THEN Append(documents, document_record) ELSE documents
          /\ sessions' =
                IF ok
                THEN [sessions EXCEPT
                        ![s].uploaded_documents =
                            Append(@, [document_id |-> document_record.document_id]),
                        ![s].updated_at = now]
                ELSE sessions
          /\ result' = [op |-> "upload_document", sid |-> s, success |-> ok]
    /\ UNCHANGED <<github, username_to_user_id, email_to_user_id, user_json, life_events,
                   life_facts, visibility_categories, info_sources, now>>

\* the category lists handed to configure_visibility; name "" is no name
VisibilityInputs ==
    { <<>>,
      <<[type |-> "good_friends", name |-> ""]>>,
      <<[type |-> "private", name |-> ""], [type |-> "public", name |-> ""]>>,
      <<[type |-> "custom", name |-> ""]>>,
      <<[type |-> "everyone", name |-> ""]>> }

\* VisibilityCategory(type=VisibilityCategoryType(cat_data["type"]), ...):
\* the enum lookup raises for a value that is no member; nothing else is checked
CategoriesConstructible(cats) ==
    \A i \in 1..Len(cats) : cats[i].type \in VisibilityCategoryType

\* LocalStorageService.create_visibility_categories: replaces the user's file
create_visibility_categories(uid, cats) ==
    (uid :> [i \in 1..Len(cats) |->
                [name |-> IF cats[i].name # "" THEN cats[i].name ELSE cats[i].type,
                 type |-> cats[i].type, user_id |-> uid]])
        @@ visibility_categories

\* OnboardingService.configure_visibility
configure_visibility(s, cats) ==
    /\ Call
    /\ s \in 1..Len(sessions)
    /\ LET ok == CategoriesConstructible(cats)
       IN /\ visibility_categories' =
                IF ok THEN create_visibility_categories(sessions[s].user_id, cats)
                ELSE visibility_categories
          /\ sessions' =
                IF ok
                THEN [sessions EXCEPT
                        ![s].visibility_categories = cats,
                        ![s].step = "visibility_configured",
                        ![s].updated_at = now]
                ELSE sessions
          /\ result' = [op |-> "configure_visibility", sid |-> s, success |-> ok]
    /\ UNCHANGED <<github, username_to_user_id, email_to_user_id, user_json, life_events,
                   life_facts, documents, info_sources, now>>

\* visibility_config[0] if visibility_config else GOOD_FRIENDS, the tag the
\* external data processor gives every entry it produces
ExternalDefaultVisibility(cats) ==
    IF Len(cats) > 0 THEN cats[1].type ELSE "good_friends"

\* what the collection step of the external data processor does
CollectOutcomes == {"ok", "ssl_error", "error"}
\* the occurrence dates the extraction gives the events it returns
ExtDates == {1}
\* the start_date of an entry of the LLM's JSON array
ExtDateOfEntry == CHOOSE d \in ExtDates : TRUE

\* ExternalDataProcessor.process_github_data: raises when collection raises
GithubCollected(collect) == collect = "ok"

\* ExternalDataProcessor.process_website_data: substitutes mock content for
\* an SSL / server error and raises for any other one
WebsiteCollected(collect) == collect \in {"ok", "ssl_error"}

\* OnboardingService._store_processed_external_data after the
\* external_data_sources update of connect_github / connect_website
StoreExternal(s, platform, nEvents, nFacts, date) ==
    LET vis == ExternalDefaultVisibility(sessions[s].visibility_categories)
        evs == [i \in 1..nEvents |->
                  [platform |-> platform, start_date |-> date, visibility |-> vis]]
        fcts == [i \in 1..nFacts |-> [platform |-> platform, visibility |-> vis]]
    IN [sessions EXCEPT
          ![s].external_data_sources = Append(@, [platform |-> platform]),
          ![s].external_life_events = @ \o evs,
          ![s].external_life_facts = @ \o fcts,
          ![s].updated_at = now]

connect_github_PersistsEvents(s, collect, nEvents, nFacts, date) ==
    /\ Call
    /\ s \in 1..Len(sessions)
    /\ Len(sessions[s].external_life_events) + nEvents <= MaxExt
    /\ Len(sessions[s].external_life_facts) + nFacts <= MaxExt
    /\ Len(sessions[s].external_data_sources) < MaxExt + 1
    /\ LET ok == GithubCollected(collect)
       IN /\ sessions' = IF ok THEN StoreExternal(s, "github", nEvents, nFacts, date)
                         ELSE sessions
          /\ life_events' =
                IF ok
                THEN life_events \o
                     [i \in 1..nEvents |->
                        [user_id |-> sessions[s].user_id,
                         summary |-> [src |-> "github", n |-> i],
                         start_date |-> Naive(date),
                         visibility |-> Visibility("good_friends", {})]]
                ELSE life_events
          /\ result' = [op |-> "connect_github", sid |-> s, success |-> ok]
    /\ UNCHANGED <<github, username_to_user_id, email_to_user_id, user_json, life_facts,
                   documents, visibility_categories, info_sources, now>>

\* OnboardingService.connect_github
connect_github(s, collect, nEvents, nFacts, date) ==
    /\ Call
    /\ s \in 1..Len(sessions)
    /\ Len(sessions[s].external_life_events) + nEvents <= MaxExt
    /\ Len(sessions[s].external_life_facts) + nFacts <= MaxExt
    /\ Len(sessions[s].external_data_sources) < MaxExt + 1
    /\ LET ok == GithubCollected(collect)
       IN /\ sessions' = IF ok THEN StoreExternal(s, "github", nEvents, nFacts, date)
                         ELSE sessions
          /\ result' = [op |-> "connect_github", sid |-> s, success |-> ok]
    /\ UNCHANGED <<github, store, now>>

\* OnboardingService.connect_website
connect_website(s, collect, nEvents, nFacts, date) ==
    /\ Call
    /\ s \in 1..Len(sessions)
    /\ Len(sessions[s].external_life_events) + nEvents <= MaxExt
    /\ Len(sessions[s].external_life_facts) + nFacts <= MaxExt
    /\ Len(sessions[s].external_data_sources) < MaxExt + 1
    /\ LET ok == WebsiteCollected(collect)
       IN /\ sessions' = IF ok THEN StoreExternal(s, "website", nEvents, nFacts, date)
                         ELSE sessions
          /\ result' = [op |-> "connect_website", sid |-> s, success |-> ok]
    /\ UNCHANGED <<github, store, now>>

\* LocalStorageService.create_user: raises for a taken username or email
create_user_raises(username, email) ==
    username_exists(username) \/ email_exists(email)

\* InfoSource(**source_info): pydantic raises when a required field is missing
InfoSourceConstructible(source_info) ==
    {"platform", "info_description"} \subseteq DOMAIN source_info

\* the platforms whose data process_user_data fetches through
\* service.get_reading_data / get_profile_data(InfoSource(**source_info))
FetchedPlatforms == {"goodreads", "linkedin"}

\* MockProfileGenerator.generate_life_events / generate_life_facts:
\* visibility_config[0] if visibility_config else PUBLIC
ProfileDefaultVisibility(cats) ==
    IF Len(cats) > 0 THEN cats[1].type ELSE "public"

\* MockProfileGenerator.generate_life_events on the extraction results of
\* uploaded documents (type "document"): the single default entry
generate_life_events(cats) ==
    <<[summary |-> [src |-> "profile", n |-> 1], start_date |-> now,
       visibility |-> ProfileDefaultVisibility(cats)]>>

\* MockProfileGenerator.generate_life_facts: the two default facts
generate_life_facts(cats) ==
    [i \in 1..2 |-> [summary |-> [src |-> "profile", n |-> i],
                     visibility |-> ProfileDefaultVisibility(cats)]]

\* the entry_data of process_user_data handed to create_life_event: the
\* occurrence date travels under the key "date"
EventEntryData(uid, entry) ==
    [user_id |-> uid, summary |-> entry.summary,
     visibility |-> Visibility(entry.visibility, {}),
     date |-> Naive(entry.start_date)]

\* LocalStorageService.create_life_event at clock t:
\* event_data.get("start_date", datetime.now().isoformat())
create_life_event(event_data, t) ==
    [user_id |-> event_data.user_id,
     summary |-> event_data.summary,
     start_date |-> IF "start_date" \in DOMAIN event_data
                    THEN event_data.start_date ELSE Naive(t),
     visibility |-> event_data.visibility]

\* LocalStorageService.create_life_fact
create_life_fact(uid, fact) ==
    [user_id |-> uid, summary |-> fact.summary, visibility |-> fact.visibility]

\* the smallest index of 1..n satisfying P, or 0
FirstIndex(n, P(_)) ==
    IF \E i \in 1..n : P(i)
    THEN CHOOSE i \in 1..n : P(i) /\ \A j \in 1..(i - 1) : ~P(j)
    ELSE 0

StepAfterProcessing_SetsCompletedEarly(raised) == "completed"

\* the step process_user_data leaves: "processing" is set on entry and
\* "completed" only after the last storage call returned
StepAfterProcessing(raised) ==
    IF raised = "" THEN "completed" ELSE "processing"

\* OnboardingService.process_user_data, with the storage backend raising at
\* the f.k-th call of f.at (f = NoFault: the backend does not raise)
process_user_data(s, f) ==
    /\ Call
    /\ s \in 1..Len(sessions)
    /\ LET session == sessions[s]
           basic_info == session.basic_info
           username == IF basic_info # <<>> THEN basic_info[1].username
                       ELSE DefaultUsername(session.user_id)
           email == IF basic_info # <<>> THEN basic_info[1].email ELSE DefaultEmail
           \* (a) create the user
           userFails == (f.at = "create_user") \/ create_user_raises(username, email)
           actual_user_id == NewUserId(Len(user_json) + 1)
           user == [id |-> actual_user_id, username |-> username, email |-> email,
                    onboarding_completed |-> FALSE]
           \* the loop over the mock data sources
           srcs == session.data_sources
           SrcFault(i) == f.at = "create_info_source" /\ f.k = i
           SrcFetch(i) == /\ get_service(srcs[i].platform)
                          /\ srcs[i].platform \in FetchedPlatforms
                          /\ ~InfoSourceConstructible(srcs[i])
           SrcRaises(i) == SrcFault(i) \/ SrcFetch(i)
           srcStop == FirstIndex(Len(srcs), SrcRaises)
           srcStored == IF srcStop = 0 THEN Len(srcs)
                        ELSE IF SrcFault(srcStop) THEN srcStop - 1 ELSE srcStop
           srcRows == [i \in 1..srcStored |->
                         [user_id |-> actual_user_id, platform |-> srcs[i].platform]]
           \* the entries to persist
           cats == session.visibility_categories
           ext == session.external_life_events
           events == generate_life_events(cats) \o
                     [i \in 1..Len(ext) |->
                        [summary |-> [src |-> ext[i].platform, n |-> i],
                         start_date |-> ext[i].start_date,
                         visibility |-> ext[i].visibility]]
           \* LifeFact is not among the names the module imports
           factsFail == Len(session.external_life_facts) > 0
           facts == generate_life_facts(cats)
           evStop == IF f.at = "create_life_event" /\ f.k <= Len(events) THEN f.k ELSE 0
           evRows == [i \in 1..(IF evStop = 0 THEN Len(events) ELSE evStop - 1) |->
                        create_life_event(EventEntryData(actual_user_id, events[i]), now)]
           fcStop == IF f.at = "create_life_fact" /\ f.k <= Len(facts) THEN f.k ELSE 0
           fcRows == [i \in 1..(IF fcStop = 0 THEN Len(facts) ELSE fcStop - 1) |->
                        create_life_fact(actual_user_id, facts[i])]
           updFails == f.at = "update_user"
           \* where the first exception is raised, "" when none is
           raised == IF f.at = "create_user" THEN "StorageError"
                     ELSE IF userFails THEN "ValueError"
                     ELSE IF srcStop # 0 THEN
                          (IF SrcFault(srcStop) THEN "StorageError" ELSE "ValidationError")
                     ELSE IF factsFail THEN "NameError"
                     ELSE IF evStop # 0 \/ fcStop # 0 \/ updFails THEN "StorageError"
                     ELSE ""
           userCreated == ~userFails
           eventsReached == ~userFails /\ srcStop = 0 /\ ~factsFail
           factsReached == eventsReached /\ evStop = 0
       IN /\ sessions' = [sessions EXCEPT
                ![s].step = StepAfterProcessing(raised),
                ![s].user_id = IF userCreated THEN actual_user_id ELSE @,
                ![s].updated_at = now]
          /\ user_json' =
                IF ~userCreated THEN user_json
                ELSE Append(user_json,
                        [user EXCEPT !.onboarding_completed = (raised = "")])
          /\ username_to_user_id' =
                IF userCreated THEN (username :> actual_user_id) @@ username_to_user_id
                ELSE username_to_user_id
          /\ email_to_user_id' =
                IF userCreated THEN (email :> actual_user_id) @@ email_to_user_id
                ELSE email_to_user_id
          /\ info_sources' =
                IF userCreated THEN info_sources \o srcRows ELSE info_sources
          /\ life_events' =
                IF eventsReached THEN life_events \o evRows ELSE life_events
          /\ life_facts' =
                IF factsReached THEN life_facts \o fcRows ELSE life_facts
          /\ result' = [op |-> "process_user_data", sid |-> s,
                        success |-> (raised = ""), error |-> raised]
    /\ UNCHANGED <<github, documents, visibility_categories, now>>

\* ------------------------------------------------------------ newsletter
\* the identities and ids the direct store calls use
DirectUsernames == {"alice"}
DirectEmails == {"a@example.com"}
DirectUserIds == {NewUserId(1)}

\* LocalStorageService.create_user, called on the store directly
create_user(name, email) ==
    /\ LET username == Username(name)
           ok == ~create_user_raises(username, email)
           user_id == NewUserId(Len(user_json) + 1)
       IN /\ user_json' =
                IF ok
                THEN Append(user_json,
                        [id |-> user_id, username |-> username, email |-> email,
                         onboarding_completed |-> FALSE])
                ELSE user_json
          /\ username_to_user_id' =
                IF ok THEN (username :> user_id) @@ username_to_user_id
                ELSE username_to_user_id
          /\ email_to_user_id' =
                IF ok THEN (email :> user_id) @@ email_to_user_id
                ELSE email_to_user_id
          /\ result' = [op |-> "create_user", success |-> ok]
    /\ UNCHANGED <<github, sessions, life_events, life_facts, documents,
                   visibility_categories, info_sources, now, calls>>

\* datetime.now() read by a direct call: time has passed since the last one
ClockReads(t) == t \in now..MaxTime /\ now' = t

\* the visibility values of directly created events: a plain tier, and a
\* category with one more tier in also_visible
EventVisibilities ==
    {Visibility("private", {}), Visibility("public", {"good_friends"})}

\* the event_data of direct create_life_event calls: start_date an ISO
\* timestamp without offset, one with an offset, a string that is no
\* timestamp, or missing
EventInputs ==
    [user_id : DirectUserIds, visibility : EventVisibilities,
     start_date : {Naive(t) : t \in 0..MaxTime}]
      \cup [user_id : DirectUserIds, visibility : {Visibility("private", {})},
            start_date : {Aware(0), Unparsable}]
      \cup [user_id : DirectUserIds, visibility : {Visibility("private", {})}]

\* LocalStorageService.create_life_event, called on the store directly
CreateLifeEvent(event_data) ==
    /\ Len(life_events) < MaxEvents
    /\ \E t \in 0..MaxTime : ClockReads(t)
    /\ LET n == Len(life_events) + 1
           data == [f \in DOMAIN event_data \cup {"summary"} |->
                      IF f = "summary" THEN [src |-> "direct", n |-> n]
                      ELSE event_data[f]]
       IN life_events' = Append(life_events, create_life_event(data, now'))
    /\ result' = [op |-> "create_life_event", success |-> TRUE]
    /\ UNCHANGED <<github, sessions, username_to_user_id, email_to_user_id, user_json,
                   life_facts, documents, visibility_categories, info_sources,
                   calls>>

Range(seq) == {seq[i] : i \in 1..Len(seq)}

\* list.sort(key=start_date, reverse=True): descending and stable
RECURSIVE SortByStartDateDesc(_)
SortByStartDateDesc(events) ==
    IF events = <<>> THEN <<>>
    ELSE LET n == Len(events)
             last == events[n]
             head == SortByStartDateDesc(SubSeq(events, 1, n - 1))
             \* last goes behind every entry that is not older than it
             k == Cardinality({i \in 1..(n - 1) :
                                 head[i].start_date.t >= last.start_date.t})
         IN SubSeq(head, 1, k) \o <<last>> \o SubSeq(head, k + 1, n - 1)

\* datetime.fromisoformat(entry.get("start_date")) succeeds
DateParses(entry) == entry.start_date.kind # "invalid"

\* start_date <= event_start_date <= end_date
InDateRange(entry, start_date, end_date) ==
    start_date <= entry.start_date.t /\ entry.start_date.t <= end_date

\* the visibility check of get_life_events_by_date_range: skipped for an
\* empty or missing visibility_levels, otherwise on the stored type alone
VisibilityLevelMatches(entry, visibility_levels) ==
    visibility_levels # <<>> => entry.visibility.type \in Range(visibility_levels)

\* LocalStorageService.get_life_events_by_date_range: the matching events,
\* newest first; raised when a parsed start_date carries an offset, which
\* the comparison with the offset-less bounds rejects with a TypeError
get_life_events_by_date_range(user_id, start_date, end_date, visibility_levels) ==
    LET Mine(e) == e.user_id = user_id
        all_events == SelectSeq(life_events, Mine)
        Matches(e) == /\ DateParses(e)
                      /\ InDateRange(e, start_date, end_date)
                      /\ VisibilityLevelMatches(e, visibility_levels)
        raised == \E i \in 1..Len(all_events) :
                     DateParses(all_events[i]) /\ all_events[i].start_date.kind = "aware"
    IN [raised |-> raised,
        events |-> IF raised THEN <<>>
                   ELSE SortByStartDateDesc(SelectSeq(all_events, Matches))]

\* the newsletter configs handed to generate_newsletter: periodicity in
\* hours and the tier list
Periodicities == {1, 2}
ConfigTiers == {<<>>, <<"good_friends">>, <<"good_friends", "public">>}
ConfigInputs == [periodicity : Periodicities, visibility : ConfigTiers]

\* what the LLM call of _generate_content_with_llm does
LlmOutcomes == {"ok", "fail"}

create_fallback_newsletter_StorageOrder(events) ==
    [kind |-> "fallback",
     listed |-> SelectSeq(life_events, LAMBDA e : e \in Range(events)),
     quiet |-> (events = <<>>)]

\* NewsletterGenerator._create_fallback_newsletter: the listed events, or
\* the quiet-period sentence
create_fallback_newsletter(events) ==
    [kind |-> "fallback", listed |-> events, quiet |-> (events = <<>>)]

\* NewsletterGenerator._generate_content_with_llm
generate_content_with_llm(events, llm) ==
    IF llm = "ok" THEN [kind |-> "llm", listed |-> events, quiet |-> (events = <<>>)]
    ELSE create_fallback_newsletter(events)

NoContent == [kind |-> "none", listed |-> <<>>, quiet |-> FALSE]

\* DEFAULT_NEWSLETTER_CONFIG: the past week, for good friends
DEFAULT_NEWSLETTER_CONFIG == [periodicity |-> 168, visibility |-> <<"good_friends">>]

\* newsletter_config = None, the default of the parameter
NoConfig == [none |-> TRUE]

\* NewsletterGenerator.generate_newsletter; selected is the list of events
\* the returned newsletter was written from. The first statement reads
\* newsletter_config.name, before the test that substitutes the default
\* config for None; the except clause turns the AttributeError into a failure
generate_newsletter(user_id, config, llm) ==
    /\ \E t \in 0..MaxTime : ClockReads(t)
    /\ LET end_date == now'
           start_date == end_date - config.periodicity
           visibility_levels == config.visibility
           found == get_life_events_by_date_range(
                        user_id, start_date, end_date, visibility_levels)
           user_data == get_user(user_id)
           \* llm_call / fallback: whether _generate_content_with_llm called
           \* the LLM and the fallback template, and how the call ended;
           \* prompt: the events formatted into the LLM prompt
           failure(error) ==
               [op |-> "generate_newsletter", user_id |-> user_id, config |-> config,
                end_date |-> end_date, success |-> FALSE, error |-> error,
                selected |-> <<>>, events_count |-> 0, content |-> NoContent,
                llm_call |-> "not_called", fallback |-> "not_called",
                prompt |-> <<>>]
       IN result' =
            IF config = NoConfig THEN failure("AttributeError")
            ELSE IF found.raised THEN failure("TypeError")
            ELSE IF user_data = <<>> THEN failure("User not found")
            ELSE [op |-> "generate_newsletter", user_id |-> user_id, config |-> config,
                  end_date |-> end_date, success |-> TRUE, error |-> "",
                  selected |-> found.events, events_count |-> Len(found.events),
                  content |-> generate_content_with_llm(found.events, llm),
                  llm_call |-> llm,
                  fallback |-> IF llm = "fail" THEN "ok" ELSE "not_called",
                  prompt |-> found.events]
    /\ UNCHANGED <<github, sessions, store, calls>>

\* ================================================================ claims
\* the calls of the onboarding service that just returned
Returned(op) == result'.op = op /\ calls' = calls + 1

\* C1: the step of a session becomes visibility_configured only from
\* basic_info_complete, and becomes processing or completed only from
\* visibility_configured (or, on a retry, from processing): no state of
\* start -> basic_info_complete -> visibility_configured -> processing ->
\* completed is skipped.
C1_NoStateSkipped ==
    [][\A s \in 1..Len(sessions) :
         LET before == sessions[s].step
             after == sessions'[s].step
         IN /\ (after = "visibility_configured" /\ before # after)
                  => before = "basic_info_complete"
            /\ (after \in {"processing", "completed"} /\ before # after)
                  => before \in {"visibility_configured", "processing"}]_vars

\* C2: a process_user_data call in which a step raises returns success=false
\* with the error and leaves the session in "processing"; a session's step
\* becomes "completed" only in a process_user_data call on that session that
\* returns success=true.
C2_FailureLeavesProcessing ==
    [][/\ (Returned("process_user_data") /\ ~result'.success)
             => /\ result'.error # ""
                /\ sessions'[result'.sid].step = "processing"
       /\ \A s \in 1..Len(sessions) :
             (sessions'[s].step = "completed" /\ sessions[s].step # "completed")
               => /\ Returned("process_user_data")
                  /\ result'.sid = s
                  /\ result'.success]_vars

\* a process_user_data call failed on a storage error after the user record,
\* an info source and an event were written, and the session is in "processing"
C2_Witness ==
    /\ result.op = "process_user_data"
    /\ ~result.success
    /\ result.error = "StorageError"
    /\ sessions[result.sid].step = "processing"
    /\ IsUser(sessions[result.sid].user_id)
    /\ \E i \in 1..Len(life_events) :
          life_events[i].user_id = sessions[result.sid].user_id

\* C3: a session left in "processing" by a failed process_user_data that had
\* already created the user record is retryable: a later process_user_data on
\* it in which storage does not fail returns success=true.  (The session has
\* no external facts and no fetched data source, so nothing but storage
\* made the first attempt fail.)
C3_RetrySucceeds ==
    [][\A s \in 1..Len(sessions) :
         (/\ sessions[s].step = "processing"
          /\ IsUser(sessions[s].user_id)
          /\ ~user_json[sessions[s].user_id[2]].onboarding_completed
          /\ sessions[s].external_life_facts = <<>>
          /\ sessions[s].data_sources = <<>>
          /\ Returned("process_user_data")
          /\ result'.sid = s
          /\ result'.error # "StorageError")
         => (result'.success /\ sessions'[s].step = "completed")]_vars

\* C4: add_data_source, connect_github and connect_website, successful or
\* failed, write only to the session: the user index, the user records, the
\* life events and the life facts of the store are what they were before.
C4_DataSourceWritesOnlySession ==
    [][(Returned("add_data_source") \/ Returned("connect_github")
          \/ Returned("connect_website"))
       => UNCHANGED <<username_to_user_id, email_to_user_id, user_json,
                      life_events, life_facts>>]_vars

\* connect_github accumulated an event in the session and the store is empty
C4_Witness ==
    /\ result.op = "connect_github"
    /\ result.success
    /\ sessions[result.sid].external_life_events # <<>>
    /\ life_events = <<>>
    /\ user_json = <<>>

\* C5: submit_basic_info with a username or an email that belongs to a user
\* of the store's user index returns failure and leaves the session as it was.
C5_DuplicateIdentityRejected ==
    [][(/\ Returned("submit_basic_info")
        /\ \/ get_user_by_username(result'.username) # <<>>
           \/ get_user_by_email(result'.email) # <<>>)
       => (~result'.success /\ sessions' = sessions)]_vars

\* a submit_basic_info with a fresh username and the email of an existing
\* user was rejected
C5_Witness ==
    /\ result.op = "submit_basic_info"
    /\ ~result.success
    /\ get_user_by_username(result.username) = <<>>
    /\ get_user_by_email(result.email) # <<>>

\* C6: once a session's submit_basic_info succeeded with username U and email
\* E, a submit_basic_info of another session with U or with E returns failure
\* and leaves the first session as it was, whether or not the first session
\* ran process_user_data.
C6_PendingIdentityRejected ==
    [][\A s \in 1..Len(sessions) :
         (/\ Returned("submit_basic_info")
          /\ result'.sid # s
          /\ sessions[s].basic_info # <<>>
          /\ \/ sessions[s].basic_info[1].username = result'.username
             \/ sessions[s].basic_info[1].email = result'.email)
         => (~result'.success /\ sessions'[s] = sessions[s])]_vars


\* the visibility test of NewsletterService.generate_newsletter_content:
\* the entry's tier is the level, or the level is one of its also_visible
VisibleToLevel(visibility, privacy_level) ==
    visibility.type = privacy_level \/ privacy_level \in visibility.also_visible

\* an entry is visible to a list of tiers when it is visible to one of them
IsVisibleTo(visibility, tiers) ==
    \E level \in Range(tiers) : VisibleToLevel(visibility, level)

\* generate_newsletter just returned for a user of the store
Generated ==
    /\ result.op = "generate_newsletter"
    /\ get_user(result.user_id) # <<>>

\* the stored events of the newsletter's user
StoredEvents == {e \in Range(life_events) : e.user_id = result.user_id}

\* the window [now - periodicity hours, now] of the returned newsletter
InWindow(e) ==
    /\ result.end_date - result.config.periodicity <= e.start_date.t
    /\ e.start_date.t <= result.end_date

\* C7: every event selected by generate_newsletter is visible to at least
\* one tier listed in config.visibility; so a config with an empty list
\* selects no event, and a private event is selected only by a config that
\* lists private.
C7_SelectedVisibleToListedTier ==
    Generated =>
        \A e \in Range(result.selected) :
            IsVisibleTo(e.visibility, result.config.visibility)

\* C8: an event stored with tier T and also_visible = [T2], T2 # T, whose
\* start_date is inside the window, is selected by a generate_newsletter
\* that succeeds for a config listing only T2.
C8_AlsoVisibleSelected ==
    (Generated /\ result.success) =>
        \A e \in StoredEvents :
            (/\ Len(result.config.visibility) = 1
             /\ e.visibility.type # result.config.visibility[1]
             /\ e.visibility.also_visible = {result.config.visibility[1]}
             /\ e.start_date.kind = "naive"
             /\ InWindow(e))
            => e \in Range(result.selected)

\* C9: selection is monotonic in the audience: for the user, the stored
\* events and the window of a newsletter generated for config B, the events
\* selected for a config A whose tier list is a subset of B's are among the
\* events selected for B.
C9_MonotonicInAudience ==
    (Generated /\ result.success) =>
        \A tiersA \in ConfigTiers :
            Range(tiersA) \subseteq Range(result.config.visibility)
            => Range(get_life_events_by_date_range(
                         result.user_id,
                         result.end_date - result.config.periodicity,
                         result.end_date, tiersA).events)
                 \subseteq Range(result.selected)

\* C10: a stored event whose tier is listed in config.visibility and whose
\* start_date is an ISO timestamp is selected by generate_newsletter if and
\* only if the start_date lies in the closed window
\* [now - periodicity hours, now], both bounds included.
C10_SelectedIffInWindow ==
    Generated =>
        \A e \in StoredEvents :
            (/\ e.visibility.type \in Range(result.config.visibility)
             /\ e.start_date.kind = "naive")
            => (e \in Range(result.selected) <=> InWindow(e))


\* ------------------------------------------------- newsletter service
\* NewsletterFrequency values (data_models/enums.py)
NewsletterFrequency == {"daily", "weekly", "monthly"}

\* timedelta(days=1) / timedelta(weeks=1) / timedelta(days=30), in hours
FrequencyHours(frequency) ==
    IF frequency = "daily" THEN 24
    ELSE IF frequency = "weekly" THEN 168
    ELSE 720

\* the start_date / date values of the entries of a User object, in hours
\* relative to the clock of Init: now, within the last week, older than a month
EntryDates == {0, 0 - 100, 0 - 1000}

\* the LifeEvent entries of a User object
UserEvents ==
    [visibility : EventVisibilities, start_date : {Naive(t) : t \in EntryDates},
     summary : {[src |-> "event", n |-> 1]}]

\* the LifeFact entries of a User object
UserFacts ==
    [visibility : EventVisibilities, date : {Naive(t) : t \in EntryDates},
     summary : {[src |-> "fact", n |-> 1]}]

\* the sequences over S of length at most n
SeqsUpTo(S, n) == UNION {[1..k -> S] : k \in 0..n}

\* a User object handed to the newsletter service: user.life_events and
\* user.facts are held in life_events and life_facts
InitContent ==
    /\ sessions = <<>>
    /\ username_to_user_id = <<>>
    /\ email_to_user_id = <<>>
    /\ user_json = <<>>
    /\ life_events \in SeqsUpTo(UserEvents, MaxEntries)
    /\ life_facts \in SeqsUpTo(UserFacts, MaxEntries)
    /\ documents = <<>>
    /\ visibility_categories = <<>>
    /\ info_sources = <<>>
    /\ now = 0
    /\ calls = 0
    /\ github = GitHubClient(0)
    /\ result = [op |-> "init"]

\* sorted(relevant_facts, key=date, reverse=True): descending and stable
RECURSIVE SortByDateDesc(_)
SortByDateDesc(facts) ==
    IF facts = <<>> THEN <<>>
    ELSE LET n == Len(facts)
             last == facts[n]
             head == SortByDateDesc(SubSeq(facts, 1, n - 1))
             k == Cardinality({i \in 1..(n - 1) : head[i].date.t >= last.date.t})
         IN SubSeq(head, 1, k) \o <<last>> \o SubSeq(head, k + 1, n - 1)

\* NewsletterService.generate_newsletter_content: "Recent Updates" lists the
\* relevant events, "Recent Insights" the relevant facts, and the quiet
\* sentence is written when there is neither
generate_newsletter_content(privacy_level, frequency) ==
    /\ LET since_date == now - FrequencyHours(frequency)
           RelevantEntry(entry) ==
               /\ VisibleToLevel(entry.visibility, privacy_level)
               /\ entry.start_date.t >= since_date
           RelevantFact(fact) ==
               /\ VisibleToLevel(fact.visibility, privacy_level)
               /\ fact.date.t >= since_date
           relevant_entries == SelectSeq(life_events, RelevantEntry)
           relevant_facts == SelectSeq(life_facts, RelevantFact)
       IN result' = [op |-> "generate_newsletter_content",
                     privacy_level |-> privacy_level, frequency |-> frequency,
                     recent_updates |-> SortByStartDateDesc(relevant_entries),
                     recent_insights |-> SortByDateDesc(relevant_facts),
                     quiet |-> (relevant_entries = <<>> /\ relevant_facts = <<>>)]
    /\ UNCHANGED <<github, sessions, store, now, calls>>

\* C11: no LifeFact is included in a newsletter's window-based selection:
\* whatever facts the user has and whatever their date, the content written
\* by the newsletter service lists no fact.
C11_NoFactInNewsletter ==
    result.op = "generate_newsletter_content" => result.recent_insights = <<>>

\* the stored events of the newsletter's user that the config's tiers and
\* window match
MatchingEvents ==
    {e \in StoredEvents : /\ e.visibility.type \in Range(result.config.visibility)
                          /\ DateParses(e)
                          /\ InWindow(e)}

\* C12: generate_newsletter for an existing user and a config with at least
\* one tier, when no stored event matches the window and the tiers, returns
\* success=true with events_count=0 and content that acknowledges the quiet
\* period, whether the LLM call succeeded or failed.
C12_QuietPeriodSucceeds ==
    (Generated /\ result.config.visibility # <<>> /\ MatchingEvents = {})
    => /\ result.success
       /\ result.events_count = 0
       /\ result.content.kind # "none"
       /\ result.content.quiet

\* C13: generate_newsletter returns success=false only when the LLM call
\* and the fallback template have both failed.
C13_FailureOnlyWhenBothPathsFail ==
    (result.op = "generate_newsletter" /\ ~result.success)
    => (result.llm_call = "fail" /\ result.fallback = "fail")

RowsOf(rows, uid) == {i \in 1..Len(rows) : rows[i].user_id = uid}

\* C15: process_user_data on a session that accumulated external events and
\* external facts, with no mock data source, a free identity and no storage
\* error, returns success and leaves in the store, for the new user, one row
\* for each accumulated event and one row for each accumulated fact.
C15_ExternalDataPersisted ==
    [][\A s \in 1..Len(sessions) :
         (/\ Returned("process_user_data")
          /\ result'.sid = s
          /\ sessions[s].external_life_events # <<>>
          /\ sessions[s].external_life_facts # <<>>
          /\ sessions[s].data_sources = <<>>
          /\ result'.error \notin {"StorageError", "ValueError"})
         => /\ result'.success
            /\ Cardinality({i \in RowsOf(life_events', sessions'[s].user_id) :
                              life_events'[i].summary.src # "profile"})
                 = Len(sessions[s].external_life_events)
            /\ Cardinality({i \in RowsOf(life_facts', sessions'[s].user_id) :
                              life_facts'[i].summary.src # "profile"})
                 = Len(sessions[s].external_life_facts)]_vars

\* C16: every life event row and life fact row written by a successful
\* process_user_data on a session with configured tiers carries the first
\* configured tier, whether its data source was connected before or after
\* configure_visibility.
C16_RowsCarryConfiguredDefault ==
    [][\A s \in 1..Len(sessions) :
         (/\ Returned("process_user_data")
          /\ result'.sid = s
          /\ result'.success
          /\ sessions[s].visibility_categories # <<>>)
         => /\ \A i \in (Len(life_events) + 1)..Len(life_events') :
                 life_events'[i].visibility.type
                    = sessions[s].visibility_categories[1].type
            /\ \A i \in (Len(life_facts) + 1)..Len(life_facts') :
                 life_facts'[i].visibility
                    = sessions[s].visibility_categories[1].type]_vars

\* C17: after a successful process_user_data, what the session persisted is
\* retrievable under the user_id it returns: get_documents_for_user gives
\* every document uploaded in the session and get_visibility_categories
\* every category configured in the session.
C17_SessionDataUnderNewUserId ==
    [][\A s \in 1..Len(sessions) :
         (/\ Returned("process_user_data")
          /\ result'.sid = s
          /\ result'.success)
         => LET user_id == sessions'[s].user_id
            IN /\ \A d \in Range(sessions[s].uploaded_documents) :
                    \E i \in RowsOf(documents', user_id) :
                       documents'[i].document_id = d.document_id
               /\ sessions[s].visibility_categories # <<>>
                    => /\ user_id \in DOMAIN visibility_categories'
                       /\ Len(visibility_categories'[user_id])
                            = Len(sessions[s].visibility_categories)]_vars

\* C18: a category of tier custom without a name is rejected when it is
\* constructed: a configure_visibility that returns success stored no such
\* category, and one that returns failure left the session and the stored
\* categories as they were.
C18_CustomWithoutNameRejected ==
    [][Returned("configure_visibility")
       => /\ result'.success
               => \A i \in 1..Len(sessions'[result'.sid].visibility_categories) :
                     LET cat == sessions'[result'.sid].visibility_categories[i]
                     IN ~(cat.type = "custom" /\ cat.name = "")
          /\ ~result'.success
               => /\ sessions' = sessions
                  /\ visibility_categories' = visibility_categories]_vars

\* --------------------------------------------------- GitHub extraction
\* the raw GitHub data the extraction reads: commit_activity.commits_last_30_days,
\* the keys of commit_activity.languages_used, summary.total_repositories and
\* profile.location ("" when absent)
GithubData ==
    [commits_last_30_days : {0, 12},
     languages_used : {<<>>, <<"Python", "Go", "Rust", "C">>},
     total_repositories : {3},
     location : {"", "Berlin"}]

\* the visibility_config handed to the extraction
VisibilityConfigs == {<<>>, <<"private">>}

\* what the litellm completion call does: it raises, or returns content that
\* is empty, prose without a JSON array, a JSON array of n entries of the
\* format the prompt asks for, or (form "content") a given response text
LlmCompletions ==
    [form : {"raises", "empty", "prose"}, n : {0}] \cup [form : {"json"}, n : {0, 1}]

\* the summary text of an entry: what it was written from
Summary(kind, n, languages, location) ==
    [kind |-> kind, n |-> n, languages |-> languages, location |-> location]

\* the first n elements of seq, seq[:n]
Take(seq, n) == SubSeq(seq, 1, IF Len(seq) < n THEN Len(seq) ELSE n)

\* the longest JSON array and the most fenced blocks or bracketed substrings
\* of a response text
MaxItems == 2
MaxBlocks == 2

\* the items of a JSON array of the LLM: an object with summary and a
\* parsable start_date, an object with summary and category, an object
\* without summary, an object whose start_date does not parse, a non-object
ItemShapes == {"event", "fact", "no_summary", "bad_date", "not_object"}

\* the keys of an item: "key" in entry_data, fact_data["key"]
ItemKeys(item) ==
    CASE item.shape = "event" -> {"summary", "start_date"}
      [] item.shape = "fact" -> {"summary", "category"}
      [] item.shape = "no_summary" -> {"start_date", "category"}
      [] item.shape = "bad_date" -> {"summary", "start_date", "category"}
      [] OTHER -> {}

\* the i-th item of an array, of the given shape; summary stands for the
\* item's text, which an entry made from the item carries
Item(shape, kind, i, category) ==
    [shape |-> shape, summary |-> Summary(kind, i, <<>>, ""), category |-> category]

\* the JSON arrays of up to MaxItems items
Arrays ==
    {[i \in 1..Len(shapes) |-> Item(shapes[i], "llm", i, "skills")] :
        shapes \in SeqsUpTo(ItemShapes, MaxItems)}

\* a `[...]` substring of a response text: json.loads raises on it, or it
\* parses to the empty array or to an array of one event
Blocks ==
    {[parses |-> FALSE, items |-> <<>>],
     [parses |-> TRUE, items |-> <<>>],
     [parses |-> TRUE, items |-> <<Item("event", "llm", 1, "skills")>>]}

\* no_dates_indicators of _extract_json_from_response
no_dates_indicators ==
    {"no specific dates", "no explicit dates", "cannot extract",
     "no dated events", "empty array", "no clear dates"}

\* the phrase a response text contains: an indicator, an indicator in
\* capitals, another phrase, none
Phrases == no_dates_indicators \cup {"No Specific Dates", "nothing found", ""}

\* str.lower on a phrase
Lower(phrase) ==
    IF phrase = "No Specific Dates" THEN "no specific dates" ELSE phrase

\* a response text: what json.loads makes of the whole trimmed text ("blank"
\* for an empty text, "text" when it raises), the array it parses to, the
\* fenced blocks ```[...]``` and the other `[...]` substrings in text order,
\* and the phrase it contains
Response(whole, items, fenced, loose, phrase) ==
    [whole |-> whole, items |-> items, fenced |-> fenced, loose |-> loose,
     phrase |-> phrase]

\* the response texts
Responses ==
    {Response(w, <<>>, <<>>, <<>>, "") : w \in {"blank", "object", "scalar", "null"}}
    \cup {Response("array", a, <<>>, <<>>, "") : a \in Arrays}
    \cup {Response("text", <<>>, f, l, p) :
             f \in SeqsUpTo(Blocks, MaxBlocks), l \in SeqsUpTo(Blocks, MaxBlocks),
             p \in Phrases}

\* ExternalDataProcessor._get_mock_response: two canned facts for a
\* life-facts prompt, the empty array for the GitHub events prompt
get_mock_response(prompt) ==
    IF prompt = "life_facts"
    THEN Response("array",
                  <<Item("fact", "canned", 1, "professional"),
                    Item("fact", "canned", 2, "skills")>>, <<>>, <<>>, "")
    ELSE Response("array", <<>>, <<>>, <<>>, "")

\* ExternalDataProcessor._llm_completion: the mock response when no API key
\* is configured or the completion raises, the content of the LLM otherwise
llm_completion(prompt, api_key, llm) ==
    IF ~api_key \/ llm.form = "raises" THEN get_mock_response(prompt)
    ELSE CASE llm.form = "empty" -> Response("blank", <<>>, <<>>, <<>>, "")
           [] llm.form = "prose" -> Response("text", <<>>, <<>>, <<>>, "")
           [] llm.form = "json" ->
                Response("array",
                         [i \in 1..llm.n |->
                            Item(IF prompt = "life_facts" THEN "fact" ELSE "event",
                                 "llm", i, "skills")],
                         <<>>, <<>>, "")
           [] OTHER -> llm.content

\* the blocks json.loads parses, and the first of them
Parsing(blocks) == {i \in 1..Len(blocks) : blocks[i].parses}
FirstParsing(blocks) ==
    blocks[CHOOSE i \in Parsing(blocks) : \A j \in Parsing(blocks) : i <= j]

extract_json_from_response_CaseSensitive(response) ==
    LET json_patterns == response.fenced \o response.loose
    IN IF response.whole = "blank" THEN [found |-> "array", entries |-> <<>>]
       ELSE IF response.whole = "null" THEN [found |-> "none", entries |-> <<>>]
       ELSE IF response.whole # "text"
       THEN [found |-> response.whole, entries |-> response.items]
       ELSE IF Parsing(response.fenced) # {}
       THEN [found |-> "array", entries |-> FirstParsing(response.fenced).items]
       ELSE IF Parsing(json_patterns) # {}
       THEN [found |-> "array", entries |-> FirstParsing(json_patterns).items]
       ELSE IF response.phrase \in no_dates_indicators
       THEN [found |-> "array", entries |-> <<>>]
       ELSE [found |-> "none", entries |-> <<>>]

\* ExternalDataProcessor._extract_json_from_response: [] for an empty
\* response; whatever json.loads makes of the whole text (found "array",
\* "object", "scalar", or "none" for null); the first fenced block that
\* parses; the first `[...]` substring that parses; [] when the lowered text
\* contains an indicator; None (found "none") otherwise
extract_json_from_response(response) ==
    LET json_patterns == response.fenced \o response.loose
    IN IF response.whole = "blank" THEN [found |-> "array", entries |-> <<>>]
       ELSE IF response.whole = "null" THEN [found |-> "none", entries |-> <<>>]
       ELSE IF response.whole # "text"
       THEN [found |-> response.whole, entries |-> response.items]
       ELSE IF Parsing(response.fenced) # {}
       THEN [found |-> "array", entries |-> FirstParsing(response.fenced).items]
       ELSE IF Parsing(json_patterns) # {}
       THEN [found |-> "array", entries |-> FirstParsing(json_patterns).items]
       ELSE IF Lower(response.phrase) \in no_dates_indicators
       THEN [found |-> "array", entries |-> <<>>]
       ELSE [found |-> "none", entries |-> <<>>]

\* visibility_config[0] if visibility_config else GOOD_FRIENDS
PoolDefaultVisibility(visibility_config) ==
    ExternalDefaultVisibility([i \in 1..Len(visibility_config) |->
                                 [type |-> visibility_config[i]]])

\* the items of seq that satisfy Keep, in order
RECURSIVE KeptItems(_, _)
KeptItems(seq, keep) ==
    IF seq = <<>> THEN <<>>
    ELSE (IF Head(seq) \in keep THEN <<Head(seq)>> ELSE <<>>)
         \o KeptItems(Tail(seq), keep)

\* the item loop of _generate_github_life_events: an item that is no dict,
\* lacks start_date or summary, or whose start_date fromisoformat rejects, is
\* skipped
EventItemKept(item) ==
    /\ {"start_date", "summary"} \subseteq ItemKeys(item)
    /\ item.shape # "bad_date"

\* the item loop of the facts paths: fact_data["summary"] and
\* fact_data["category"] raise for an item without them
FactItemRaises(item) == ~ ({"summary", "category"} \subseteq ItemKeys(item))

\* ExternalDataProcessor._generate_github_life_events
generate_github_life_events(github_data, visibility_config, api_key, llm) ==
    LET response == llm_completion("github_events", api_key, llm)
        json_data == extract_json_from_response(response)
        default_visibility == PoolDefaultVisibility(visibility_config)
        kept == KeptItems(json_data.entries,
                          {e \in Range(json_data.entries) : EventItemKept(e)})
    IN IF json_data.found # "array" \/ json_data.entries = <<>> THEN <<>>
       ELSE [i \in 1..Len(kept) |->
               [visibility |-> default_visibility,
                start_date |-> ExtDateOfEntry,
                summary |-> kept[i].summary]]

\* ExternalDataProcessor._create_fallback_github_entries at clock t (hours)
create_fallback_github_entries(github_data, visibility_config, t) ==
    LET default_visibility == ExternalDefaultVisibility(
                                  [i \in 1..Len(visibility_config) |->
                                     [type |-> visibility_config[i]]])
        languages == Take(github_data.languages_used, 3)
    IN (IF github_data.commits_last_30_days > 0
        THEN <<[visibility |-> default_visibility,
                start_date |-> t - 15 * 24,
                summary |-> Summary("coding_activity",
                                    github_data.commits_last_30_days, <<>>, "")]>>
        ELSE <<>>)
       \o
       (IF languages # <<>>
        THEN <<[visibility |-> default_visibility,
                start_date |-> t - 30 * 24,
                summary |-> Summary("skills", 0, languages, "")]>>
        ELSE <<>>)

\* ExternalDataProcessor._create_fallback_github_facts at clock t: LifeFact.date
\* defaults to datetime.now()
create_fallback_github_facts(github_data, visibility_config, t) ==
    LET default_visibility == ExternalDefaultVisibility(
                                  [i \in 1..Len(visibility_config) |->
                                     [type |-> visibility_config[i]]])
        languages == Take(github_data.languages_used, 5)
        Fact(summary, category) ==
            [visibility |-> default_visibility, date |-> t,
             summary |-> summary, category |-> category]
    IN (IF languages # <<>>
        THEN <<Fact(Summary("languages", 0, languages, ""), "skills")>> ELSE <<>>)
       \o
       (IF github_data.total_repositories > 0
        THEN <<Fact(Summary("repositories", github_data.total_repositories, <<>>, ""),
                    "professional")>>
        ELSE <<>>)
       \o
       (IF github_data.location # ""
        THEN <<Fact(Summary("location", 0, <<>>, github_data.location), "background")>>
        ELSE <<>>)

\* ExternalDataProcessor._generate_github_life_facts at clock t: the facts of
\* the array json.loads makes of the whole response; the fallback facts when
\* json.loads raises, the value is no array or an item raises
generate_github_life_facts(github_data, visibility_config, api_key, llm, t) ==
    LET response == llm_completion("life_facts", api_key, llm)
        default_visibility == PoolDefaultVisibility(visibility_config)
    IN IF /\ response.whole = "array"
          /\ \A i \in 1..Len(response.items) : ~FactItemRaises(response.items[i])
       THEN [i \in 1..Len(response.items) |->
               [visibility |-> default_visibility, date |-> t,
                summary |-> response.items[i].summary,
                category |-> response.items[i].category]]
       ELSE create_fallback_github_facts(github_data, visibility_config, t)

\* ExternalDataProcessor._generate_website_life_facts at clock t: [] for an
\* empty response, when json.loads raises and when an item raises
generate_website_life_facts(visibility_config, api_key, llm, t) ==
    LET response == llm_completion("life_facts", api_key, llm)
        default_visibility == PoolDefaultVisibility(visibility_config)
    IN IF /\ response.whole = "array"
          /\ \A i \in 1..Len(response.items) : ~FactItemRaises(response.items[i])
       THEN [i \in 1..Len(response.items) |->
               [visibility |-> default_visibility, date |-> t,
                summary |-> response.items[i].summary,
                category |-> response.items[i].category]]
       ELSE <<>>

\* ExternalDataProcessor.process_github_data on collected raw data; the
\* completion for the events and the one for the facts end the same way
process_github_data(github_data, visibility_config, api_key, llm) ==
    /\ \E t \in 0..MaxTime : ClockReads(t)
    /\ result' = [op |-> "process_github_data",
                  github_data |-> github_data,
                  visibility_config |-> visibility_config,
                  api_key |-> api_key,
                  llm |-> llm,
                  life_events |-> generate_github_life_events(
                                      github_data, visibility_config, api_key, llm),
                  life_facts |-> generate_github_life_facts(
                                     github_data, visibility_config, api_key,
                                     llm, now')]
    /\ UNCHANGED <<github, sessions, store, calls>>

\* a direct call of the two fallback functions
github_fallback(github_data, visibility_config) ==
    /\ \E t \in 0..MaxTime : ClockReads(t)
    /\ result' = [op |-> "github_fallback",
                  github_data |-> github_data,
                  visibility_config |-> visibility_config,
                  life_events |-> create_fallback_github_entries(
                                      github_data, visibility_config, now'),
                  life_facts |-> create_fallback_github_facts(
                                     github_data, visibility_config, now')]
    /\ UNCHANGED <<github, sessions, store, calls>>

\* the completion gave nothing usable: no API key, a raised call, empty
\* content or content without a JSON array
NoUsableResponse(api_key, llm) ==
    ~api_key \/ llm.form \in {"raises", "empty", "prose"}

\* C19: when the LLM gives no usable response, GitHub extraction returns the
\* fallback derived from the raw data: with commits_last_30_days = 12 the
\* events hold exactly one coding-activity event, whose summary embeds 12,
\* and the facts are the ones derived from the languages used, the
\* repository count and the location.
C19_FallbackOnUnusableLlm ==
    result.op = "process_github_data"
    => /\ (/\ NoUsableResponse(result.api_key, result.llm)
           /\ result.github_data.commits_last_30_days = 12)
          => Cardinality({i \in 1..Len(result.life_events) :
                            /\ result.life_events[i].summary.kind = "coding_activity"
                            /\ result.life_events[i].summary.n = 12}) = 1
       /\ NoUsableResponse(result.api_key, result.llm)
          => \A i \in 1..Len(result.life_facts) :
                result.life_facts[i].summary.kind
                   \in {"languages", "repositories", "location"}

\* C20: the fallback is a function of its input alone: a call with the raw
\* data and the visibility pool of the call before it, made at whatever
\* time, returns the same events and facts (summaries, dates, categories,
\* visibility), at most two events and at most three facts.
C20_FallbackDeterministic ==
    [][(/\ result.op = "github_fallback"
        /\ result'.op = "github_fallback"
        /\ result'.github_data = result.github_data
        /\ result'.visibility_config = result.visibility_config)
       => /\ result'.life_events = result.life_events
          /\ result'.life_facts = result.life_facts
          /\ Len(result'.life_events) <= 2
          /\ Len(result'.life_facts) <= 3]_vars

\* ------------------------------------------- the extraction ladder
\* an LLM response text is at hand and nothing was called yet
InitExtract ==
    /\ sessions = <<>>
    /\ username_to_user_id = <<>>
    /\ email_to_user_id = <<>>
    /\ user_json = <<>>
    /\ life_events = <<>>
    /\ life_facts = <<>>
    /\ documents = <<>>
    /\ visibility_categories = <<>>
    /\ info_sources = <<>>
    /\ now = 0
    /\ calls = 0
    /\ github = GitHubClient(0)
    /\ \E response \in Responses :
         result = [op |-> "llm_response", response |-> response]

\* the completion that returns the response text at hand
ContentOf(response) == [form |-> "content", n |-> 0, content |-> response]

\* a call of _extract_json_from_response on the response
ExtractJson ==
    /\ result.op = "llm_response"
    /\ result' = [op |-> "extract_json_from_response",
                  response |-> result.response,
                  returned |-> extract_json_from_response(result.response)]
    /\ UNCHANGED <<github, sessions, store, now, calls>>

\* a call of _generate_github_life_events whose completion returns the response
GithubLifeEvents(github_data, visibility_config) ==
    /\ result.op = "llm_response"
    /\ result' = [op |-> "generate_github_life_events",
                  response |-> result.response,
                  github_data |-> github_data,
                  visibility_config |-> visibility_config,
                  returned |-> generate_github_life_events(
                                   github_data, visibility_config, TRUE,
                                   ContentOf(result.response))]
    /\ UNCHANGED <<github, sessions, store, now, calls>>

\* a call of _generate_github_life_facts whose completion returns the response
GithubLifeFacts(github_data, visibility_config) ==
    /\ result.op = "llm_response"
    /\ result' = [op |-> "generate_github_life_facts",
                  response |-> result.response,
                  github_data |-> github_data,
                  visibility_config |-> visibility_config,
                  returned |-> generate_github_life_facts(
                                   github_data, visibility_config, TRUE,
                                   ContentOf(result.response), now)]
    /\ UNCHANGED <<github, sessions, store, now, calls>>

\* a call of _generate_website_life_facts whose completion returns the response
WebsiteLifeFacts(visibility_config) ==
    /\ result.op = "llm_response"
    /\ result' = [op |-> "generate_website_life_facts",
                  response |-> result.response,
                  visibility_config |-> visibility_config,
                  returned |-> generate_website_life_facts(
                                   visibility_config, TRUE,
                                   ContentOf(result.response), now)]
    /\ UNCHANGED <<github, sessions, store, now, calls>>

\* the raw data of an active account
ActiveGithubData ==
    {d \in GithubData : d.commits_last_30_days > 0 /\ d.languages_used # <<>>}

\* _extract_json_from_response returned for a response text that is not JSON
\* as a whole and contains one of the indicators, in whatever case
ExtractedWithPhrase ==
    /\ result.op = "extract_json_from_response"
    /\ result.response.whole = "text"
    /\ Lower(result.response.phrase) \in no_dates_indicators

C22_MalformedItemSkipped ==
    (/\ result.op \in {"generate_github_life_events", "generate_github_life_facts",
                       "generate_website_life_facts"}
     /\ result.response.whole = "array")
    => LET items == result.response.items
           valid == IF result.op = "generate_github_life_events"
                    THEN {e \in Range(items) :
                            /\ {"summary", "start_date"} \subseteq ItemKeys(e)
                            /\ e.shape # "bad_date"}
                    ELSE {e \in Range(items) :
                            {"summary", "category"} \subseteq ItemKeys(e)}
           expected == KeptItems(items, valid)
       IN /\ Len(result.returned) = Len(expected)
          /\ \A i \in 1..Len(expected) :
                result.returned[i].summary = expected[i].summary

\* C24: _extract_json_from_response returns the result of the first step
\* that succeeds, in the order whole response as a JSON array, first fenced
\* block that parses, first bracketed substring that parses, "no data" phrase
\* giving the empty list, None; every result other than None is a list; the
\* response "Looking at the content, I found no specific dates
\* mentioned.\n[]" gives the empty list of the bracket step.
C24_LadderOrder ==
    result.op = "extract_json_from_response"
    => LET r == result.response
           out == result.returned
           List(entries) == [found |-> "array", entries |-> entries]
       IN /\ out.found \in {"array", "none"}
          /\ r.whole = "array" => out = List(r.items)
          /\ r.whole = "text" =>
               IF Parsing(r.fenced) # {} THEN out = List(FirstParsing(r.fenced).items)
               ELSE IF Parsing(r.loose) # {} THEN out = List(FirstParsing(r.loose).items)
               ELSE IF Lower(r.phrase) \in no_dates_indicators THEN out = List(<<>>)
               ELSE out.found = "none"
          /\ r = Response("text", <<>>, <<>>, <<[parses |-> TRUE, items |-> <<>>]>>,
                          "no specific dates")
             => out = List(<<>>)

\* C23: when the initial collection raises (GitHub fetch or website scrape,
\* whatever the error), the processor raises and derives nothing from
\* substituted content; connect_github / connect_website returns success =
\* false and leaves the session's external_data_sources,
\* external_life_events and external_life_facts as they were.
C23_CollectionFailurePropagates ==
    [][\A s \in 1..MaxSessions, collect \in CollectOutcomes \ {"ok"},
          nEvents \in 0..MaxExt, nFacts \in 0..MaxExt, date \in ExtDates :
         (\/ connect_github(s, collect, nEvents, nFacts, date)
          \/ connect_website(s, collect, nEvents, nFacts, date))
         => /\ ~result'.success
            /\ sessions'[s].external_data_sources = sessions[s].external_data_sources
            /\ sessions'[s].external_life_events = sessions[s].external_life_events
            /\ sessions'[s].external_life_facts = sessions[s].external_life_facts]_vars

\* C25: completed is a terminal step: once a session's step is completed, a
\* submit_basic_info, configure_visibility or process_user_data on that
\* session leaves the step completed, and a repeated process_user_data adds
\* no user record.
C25_CompletedIsTerminal ==
    [][\A s \in 1..Len(sessions) :
         (/\ sessions[s].step = "completed"
          /\ \/ Returned("submit_basic_info")
             \/ Returned("configure_visibility")
             \/ Returned("process_user_data")
          /\ result'.sid = s)
         => /\ sessions'[s].step = "completed"
            /\ DOMAIN user_json' = DOMAIN user_json]_vars

\* C26: an event's occurrence date survives onboarding: an event extracted
\* with start_date D by connect_github / connect_website and persisted by
\* process_user_data is stored with start_date D, so a date-range query
\* selects it exactly when D lies in the queried window.
C26_EventDateSurvives ==
    (result.op = "process_user_data" /\ result.success)
    => LET session == sessions[result.sid]
           ext == session.external_life_events
       IN \A i \in 1..Len(ext) :
            \A e \in {life_events[j] : j \in RowsOf(life_events, session.user_id)} :
               e.summary = [src |-> ext[i].platform, n |-> i]
               => /\ e.start_date = Naive(ext[i].start_date)
                  /\ \A a \in 0..MaxTime, b \in 0..MaxTime :
                        e \in Range(get_life_events_by_date_range(
                                        session.user_id, a, b, <<>>).events)
                        <=> (a <= ext[i].start_date /\ ext[i].start_date <= b)

\* ------------------------------------------------------- the user index
\* the most user records of a run of direct store calls
MaxUsers == 2

\* the identities the store calls use
IndexUsernames == {"alice", "bob"}
IndexEmails == {"a@example.com", "b@example.com"}

\* the updates handed to update_user: a new username, a new email, both, or
\* the completion flag alone
UserUpdates ==
    [username : {Username(n) : n \in IndexUsernames}]
    \cup [email : IndexEmails]
    \cup [username : {Username(n) : n \in IndexUsernames}, email : IndexEmails]
    \cup [onboarding_completed : {TRUE}]

\* user.update(updates)
UpdatedUser(user, updates) ==
    [k \in DOMAIN user |-> IF k \in DOMAIN updates THEN updates[k] ELSE user[k]]

\* the mapping update of update_user: the key that maps to user_id is
\* deleted, then mapping[key] = user_id; no test whether key is taken
Remapped(mapping, user_id, key) ==
    LET old == {k \in DOMAIN mapping : mapping[k] = user_id}
    IN (key :> user_id) @@ [k \in (DOMAIN mapping) \ old |-> mapping[k]]

\* LocalStorageService.create_user within the explored number of users
CreateUser(name, email) ==
    /\ Len(user_json) < MaxUsers
    /\ create_user(name, email)

\* LocalStorageService.update_user
update_user(user_id, updates) ==
    /\ LET ok == get_user(user_id) # <<>>
       IN /\ user_json' =
                IF ok
                THEN [user_json EXCEPT ![user_id[2]] = UpdatedUser(@, updates)]
                ELSE user_json
          /\ username_to_user_id' =
                IF ok /\ "username" \in DOMAIN updates
                THEN Remapped(username_to_user_id, user_id, updates.username)
                ELSE username_to_user_id
          /\ email_to_user_id' =
                IF ok /\ "email" \in DOMAIN updates
                THEN Remapped(email_to_user_id, user_id, updates.email)
                ELSE email_to_user_id
          /\ result' = [op |-> "update_user", user_id |-> user_id,
                        updates |-> updates, success |-> ok]
    /\ UNCHANGED <<github, sessions, life_events, life_facts, documents,
                   visibility_categories, info_sources, now, calls>>

\* every user record is what the index returns for its username and its email
IndexConsistent ==
    \A i \in 1..Len(user_json) :
        /\ get_user_by_username(user_json[i].username) = <<user_json[i]>>
        /\ get_user_by_email(user_json[i].email) = <<user_json[i]>>

\* C27: after any sequence of create_user and update_user calls the user
\* index is consistent: a username and an email belong to at most one user,
\* every user is found by get_user_by_username and get_user_by_email under
\* its current username and email, and a create_user rejected for a
\* duplicate leaves the index and the user records as they were.
C27_UserIndexConsistent ==
    /\ []IndexConsistent
    /\ [][(result'.op = "create_user" /\ ~result'.success)
          => UNCHANGED <<user_json, username_to_user_id, email_to_user_id>>]_vars

\* C28: generate_newsletter for an existing user without a newsletter_config
\* (None) behaves as with DEFAULT_NEWSLETTER_CONFIG, the 168-hour window and
\* the tier good_friends, and returns success = true (stated for a store
\* whose date-range query does not raise).
C28_NoConfigMeansDefault ==
    LET found == get_life_events_by_date_range(
                     result.user_id,
                     result.end_date - DEFAULT_NEWSLETTER_CONFIG.periodicity,
                     result.end_date, DEFAULT_NEWSLETTER_CONFIG.visibility)
    IN (/\ result.op = "generate_newsletter"
        /\ result.config = NoConfig
        /\ get_user(result.user_id) # <<>>
        /\ ~found.raised)
       => /\ result.success
          /\ result.selected = found.events
          /\ result.events_count = Len(found.events)

\* ------------------------------------------------- GitHub rate limiting
\* the rate-limit headers of a response: X-RateLimit-Remaining and
\* X-RateLimit-Reset, or neither
ResponseHeaders ==
    [present : {TRUE}, remaining : {0, 1, 5}, reset : 0..MaxTime]
    \cup [present : {FALSE}, remaining : {0}, reset : {0}]

\* int(response.headers.get(key, 0))
HeaderInt(headers, value) == IF headers.present THEN value ELSE 0

\* how session.get ends: a response, whatever its status, or a RequestError
GetOutcomes == {"response", "http_error_status", "request_error"}

MustWait_OnlyBelowZero(remaining, reset, t) == remaining < 0 /\ t < reset

\* the rate limit check of _make_request at clock t
MustWait(remaining, reset, t) == remaining <= 1 /\ t < reset

\* GitHubClient._make_request up to session.get: read the clock at t, sleep
\* until the tracked reset time when the check says so, then send at clock
\* sent_at
make_request_send(t, sent_at) ==
    /\ ~github.pending
    /\ t \in now..MaxTime
    /\ sent_at \in t..MaxTime
    /\ MustWait(github.rate_limit_remaining, github.rate_limit_reset, t)
       => sent_at >= github.rate_limit_reset
    /\ now' = sent_at
    /\ github' = [github EXCEPT !.pending = TRUE]
    /\ result' = [op |-> "session.get", sent_at |-> sent_at,
                  waited |-> MustWait(github.rate_limit_remaining,
                                      github.rate_limit_reset, t)]
    /\ UNCHANGED <<sessions, store, calls>>

\* GitHubClient._make_request from the return of session.get: a response
\* updates the tracked pair from its headers before raise_for_status; a
\* RequestError leaves it
make_request_returns(outcome, headers, t) ==
    /\ github.pending
    /\ ClockReads(t)
    /\ github' =
         IF outcome = "request_error" THEN [github EXCEPT !.pending = FALSE]
         ELSE [rate_limit_remaining |-> HeaderInt(headers, headers.remaining),
               rate_limit_reset |-> HeaderInt(headers, headers.reset),
               pending |-> FALSE]
    /\ result' = [op |-> "_make_request", outcome |-> outcome, headers |-> headers,
                  raised |-> outcome # "response"]
    /\ UNCHANGED <<sessions, store, calls>>

Removed == [removed |-> TRUE]

\* session_id in self.sessions
session_exists(s) == s \in 1..Len(sessions) /\ sessions[s] # Removed

\* the hours_old handed to cleanup_expired_sessions; 24 is the default
HoursOld == {1, 24}

\* the sessions cleanup_expired_sessions deletes at clock t: those whose
\* updated_at is before the cutoff, whatever their step
expired_sessions(hours_old, t) ==
    {s \in 1..Len(sessions) :
        session_exists(s) /\ sessions[s].updated_at < t - hours_old}

\* LocalStorageService.cleanup_expired_sessions, called when the clock reads t
cleanup_expired_sessions(hours_old, t) ==
    /\ ClockReads(t)
    /\ sessions' = [s \in 1..Len(sessions) |->
                      IF s \in expired_sessions(hours_old, t) THEN Removed
                      ELSE sessions[s]]
    /\ result' = [op |-> "cleanup_expired_sessions", hours_old |-> hours_old,
                  returned |-> Cardinality(expired_sessions(hours_old, t))]
    /\ UNCHANGED <<github, store, calls>>

\* C30: cleanup_expired_sessions(hours_old) removes exactly the sessions
\* that were never completed and whose last update is more than hours_old
\* hours ago, returns their number, removes no session updated within that
\* time, and leaves users, events, facts and documents unchanged.
C30_CleanupRemovesStaleIncomplete ==
    [][result'.op = "cleanup_expired_sessions"
       => LET Stale(s) == /\ session_exists(s)
                          /\ sessions[s].step # "completed"
                          /\ sessions[s].updated_at < now' - result'.hours_old
          IN /\ \A s \in 1..Len(sessions) :
                   (session_exists(s) /\ sessions'[s] = Removed) <=> Stale(s)
             /\ result'.returned = Cardinality({s \in 1..Len(sessions) : Stale(s)})
             /\ UNCHANGED store]_vars

Next ==
    \/ start_onboarding
    \/ \E s \in 1..MaxSessions, name \in Usernames, email \in Emails :
         submit_basic_info(s, name, email)
    \/ \E s \in 1..MaxSessions, platform \in Platforms \cup {"myspace"} :
         add_data_source(s, platform)
    \/ \E s \in 1..MaxSessions : upload_document(s)
    \/ \E s \in 1..MaxSessions, cats \in VisibilityInputs :
         configure_visibility(s, cats)
    \/ \E s \in 1..MaxSessions, collect \in CollectOutcomes,
          nEvents \in 0..MaxExt, nFacts \in 0..MaxExt, date \in ExtDates :
         connect_github(s, collect, nEvents, nFacts, date)
    \/ \E s \in 1..MaxSessions, collect \in CollectOutcomes,
          nEvents \in 0..MaxExt, nFacts \in 0..MaxExt, date \in ExtDates :
         connect_website(s, collect, nEvents, nFacts, date)
    \/ \E s \in 1..MaxSessions, f \in Faults : process_user_data(s, f)

\* the onboarding service over the local store
Spec == Init /\ [][Next]_vars

NextNews ==
    \/ \E name \in DirectUsernames, email \in DirectEmails : create_user(name, email)
    \/ \E event_data \in EventInputs : CreateLifeEvent(event_data)
    \/ \E user_id \in DirectUserIds, config \in ConfigInputs, llm \in LlmOutcomes :
         generate_newsletter(user_id, config, llm)

\* the newsletter generator over a store filled directly
SpecNews == Init /\ [][NextNews]_vars

NextContent ==
    \E privacy_level \in {"good_friends", "public", "private"},
       frequency \in NewsletterFrequency :
         generate_newsletter_content(privacy_level, frequency)

NextGithub ==
    \/ \E github_data \in GithubData, visibility_config \in VisibilityConfigs,
          api_key \in BOOLEAN, llm \in LlmCompletions :
         process_github_data(github_data, visibility_config, api_key, llm)
    \/ \E github_data \in GithubData, visibility_config \in VisibilityConfigs :
         github_fallback(github_data, visibility_config)

\* the GitHub extraction of the external data processor
SpecGithub == Init /\ [][NextGithub]_vars

NextExtract ==
    \/ ExtractJson
    \/ \E github_data \in ActiveGithubData, visibility_config \in VisibilityConfigs :
         GithubLifeEvents(github_data, visibility_config)
    \/ \E github_data \in ActiveGithubData, visibility_config \in VisibilityConfigs :
         GithubLifeFacts(github_data, visibility_config)
    \/ \E visibility_config \in VisibilityConfigs : WebsiteLifeFacts(visibility_config)

\* the extraction ladder and the item loops over the response texts
SpecExtract == InitExtract /\ [][NextExtract]_vars

NextUsers ==
    \/ \E name \in IndexUsernames, email \in IndexEmails : CreateUser(name, email)
    \/ \E user_id \in {NewUserId(n) : n \in 1..MaxUsers}, updates \in UserUpdates :
         update_user(user_id, updates)

\* the user index of the local store under direct calls
SpecUsers == Init /\ [][NextUsers]_vars

NextNewsDefault ==
    \/ \E name \in DirectUsernames, email \in DirectEmails : create_user(name, email)
    \/ \E event_data \in EventInputs : CreateLifeEvent(event_data)
    \/ \E user_id \in DirectUserIds, config \in {NoConfig, DEFAULT_NEWSLETTER_CONFIG},
          llm \in LlmOutcomes :
         generate_newsletter(user_id, config, llm)

\* the newsletter generator called without a config and with the default one
SpecNewsDefault == Init /\ [][NextNewsDefault]_vars

NextRate ==
    \/ \E t \in 0..MaxTime, sent_at \in 0..MaxTime : make_request_send(t, sent_at)
    \/ \E outcome \in GetOutcomes, headers \in ResponseHeaders, t \in 0..MaxTime :
         make_request_returns(outcome, headers, t)

\* the requests of one GitHub client, one at a time
SpecRate == Init /\ [][NextRate]_vars

NextCleanup ==
    \/ start_onboarding
    \/ \E s \in 1..MaxSessions : session_exists(s) /\ process_user_data(s, NoFault)
    \/ \E hours_old \in HoursOld, t \in 0..MaxTime :
         cleanup_expired_sessions(hours_old, t)

\* onboarding sessions of the local store and their cleanup as time passes
SpecCleanup == Init /\ [][NextCleanup]_vars

\* the newsletter service over the User objects of InitContent
SpecContent == InitContent /\ [][NextContent]_vars
====
